---- MODULE Spec2Model ----
(***************************************************************************)
(* Model of the probabilistic LFU cache of package lfu (lfu/lfu.go).       *)
(*                                                                         *)
(* Two specifications share the cache state (size, index, buckets):        *)
(*   Spec      one client; every public method is one atomic action        *)
(*   SpecConc  NumThreads goroutines; every method is split at the         *)
(*             statements of lfu.go, all of them between mu.Lock() and the *)
(*             deferred mu.Unlock()                                        *)
(* A third one, SpecTrace, is the trace readers of package trace           *)
(* (arcReader, lirsReader) reading a bounded input, one Read per action.   *)
(* SpecLive is SpecConc on the caches that evict, with the fairness of the *)
(* scheduler and of the mutex. SpecOpen is the life of a Trace of package  *)
(* trace: Open, then Reads, then Close.                                    *)
(***************************************************************************)
EXTENDS Integers, FiniteSets, Sequences, TLC

\* ------------------------------------------------------------------ bounds
MaxKey == 3
MaxVal == 1
MaxSize == 2
NumThreads == 2
\* the position of the random source is counted modulo MaxDraws
MaxDraws == 2
\* trace input: at most MaxLines lines; Read buffers of 0..MaxBuf keys
MaxLines == 2
MaxBuf == 2
\* the run-length reader is followed until it has delivered this many keys
MaxOut == 8

Keys == 1..MaxKey
\* V is int in the tests; 0 is the zero value a missing map entry reads as
Values == 0..MaxVal
\* New accepts any int: negative, zero (documented "caching disabled"), positive
Sizes == (0 - 1)..MaxSize
Threads == 1..NumThreads

NoKey == 0
NoThread == 0
ZeroValue == 0

NoLevel == 0 - 1
NoDraw == 0 - 1
NoVictim == [level |-> NoLevel, key |-> NoKey]

\* --------------------------------------------------------------- constants
numBuckets == 4
maxBucketIndex == numBuckets - 1
\* promoteBase = 0.01, kept as its inverse so that the powers stay integers
promoteBaseInv == 100
\* rng.Float64() is in [0,1); a draw r is modelled by the integer r * DrawScale
DrawScale == promoteBaseInv * promoteBaseInv * promoteBaseInv

Levels == 0..maxBucketIndex

VARIABLES
  size,      \* Cache.size
  index,     \* Cache.index   : map[K]int8, a function on the cached keys
  buckets,   \* Cache.buckets : [numBuckets]map[K]V
  rng,       \* Cache.rng     : how many values were drawn from it so far
  mu,        \* Cache.mu      : the goroutine holding the mutex, or NoThread
  pc,        \* per goroutine: the statement of lfu.go it is about to execute
  op,        \* per goroutine: the method it is in
  akey,      \* per goroutine: argument key
  aval,      \* per goroutine: argument value
  li,        \* per goroutine: local i (the level read from the index)
  lv,        \* per goroutine: local v (the value read by Get, the n of Len)
  lk,        \* per goroutine: local k of evict (the key the loop yielded)
  snap,      \* history: index, buckets and rng as they were when the mutex was
             \* last acquired or released
  last,      \* the last completed call of the single client, with its results
  latest,    \* history: key -> value of its most recent Set, dropped when the
             \* key is removed or evicted
  tr,        \* the trace reader: its input, the scanner position, the fields
             \* k and n of arcReader, and the outcome of the last Read
  files      \* the handles of a Trace: which are open, Trace.closers, and the
             \* outcome of Open and of Close

vars == <<size, index, buckets, rng, mu, pc, op, akey, aval, li, lv, lk, snap, last, latest, tr, files>>
cacheVars == <<size, index, buckets, rng>>
threadVars == <<mu, pc, op, akey, aval, li, lv, lk, snap>>
histVars == <<last, latest>>
traceVars == <<tr, files>>

\* ------------------------------------------------------------ Go map model
EmptyMap == [k \in {} |-> 0]
MapHas(m, k) == k \in DOMAIN m
\* m[k] of Go: the zero value when k is missing
MapGet(m, k) == IF k \in DOMAIN m THEN m[k] ELSE ZeroValue
\* m[k] = v
MapPut(m, k, v) == [x \in (DOMAIN m) \cup {k} |-> IF x = k THEN v ELSE m[x]]
\* delete(m, k)
MapDel(m, k) == [x \in (DOMAIN m) \ {k} |-> m[x]]

\* --------------------------------------------------------------------- New
NewBuckets == [i \in Levels |-> EmptyMap]
\* New stores size as given; there is no validation and no error result
NewAccepts(sz) == TRUE

\* --------------------------------------------------------------------- Len
CacheLen(idx) == Cardinality(DOMAIN idx)

\* --------------------------------------------------------------------- Get
\* math.Pow(promoteBase, i), scaled by DrawScale
RECURSIVE PowInv(_)
PowInv(i) == IF i = 0 THEN 1 ELSE promoteBaseInv * PowInv(i - 1)
\* mutant: the exponent i is dropped, the threshold is promoteBase at every level
PromoteThreshold_IgnoresLevel(i) == DrawScale \div promoteBaseInv
PromoteThreshold(i) == DrawScale \div PowInv(i)

\* representative draws around the two thresholds in use (i = 1, i = 2)
Draws == {0, PromoteThreshold(2) - 1, PromoteThreshold(2),
          PromoteThreshold(1) - 1, PromoteThreshold(1), DrawScale - 1}

\* c.rng.Float64() moves the source to its next position
Float64(g) == (g + 1) % MaxDraws

\* i == 0 || (i < maxBucketIndex && ...): the draw happens only for 0 < i < max
NeedsDraw(i) == i # 0 /\ i < maxBucketIndex
\* mutant: level 0 takes the probabilistic path, with the exponent off by one
ShouldPromote_Level0Draws(i, r) ==
  i < maxBucketIndex /\ r < PromoteThreshold(i + 1)
\* mutant: the test i < maxBucketIndex is missing
ShouldPromote_NoTerminal(i, r) ==
  i = 0 \/ r < PromoteThreshold(i)
ShouldPromote(i, r) ==
  i = 0 \/ (i < maxBucketIndex /\ r < PromoteThreshold(i))

\* promote, statement by statement
\* mutant: the value is read from the destination bucket instead of the source
PromoteCopy_FromDestination(b, i, key) ==
  [b EXCEPT ![i + 1] = MapPut(@, key, MapGet(b[i + 1], key))]
PromoteCopy(b, i, key) == [b EXCEPT ![i + 1] = MapPut(@, key, MapGet(b[i], key))]
PromoteIndex(idx, i, key) == MapPut(idx, key, i + 1)
\* mutant: the former bucket is emptied instead of losing one key
PromoteDelete_ClearsBucket(b, i, key) == [b EXCEPT ![i] = EmptyMap]
\* mutant: the key is not deleted from its former bucket
PromoteDelete_Skipped(b, i, key) == b
PromoteDelete(b, i, key) == [b EXCEPT ![i] = MapDel(@, key)]

PromoteBuckets(b, i, key) == PromoteDelete(PromoteCopy(b, i, key), i, key)

\* ------------------------------------------------------------------- reset
ResetValue(b, key, value) == [b EXCEPT ![0] = MapPut(@, key, value)]
\* mutant: the key is left in its former bucket
ResetDelete_Skipped(b, i, key) == b
ResetDelete(b, i, key) == IF i > 0 THEN [b EXCEPT ![i] = MapDel(@, key)] ELSE b
ResetIndex(idx, i, key) == IF i > 0 THEN MapPut(idx, key, 0) ELSE idx

ResetBuckets(b, i, key, value) == ResetDelete(ResetValue(b, key, value), i, key)

\* --------------------------------------------------------------------- add
\* mutant: the new entry replaces bucket 0 instead of joining it
AddValue_ReplacesBucket(b, k, v) == [b EXCEPT ![0] = MapPut(EmptyMap, k, v)]
AddValue(b, k, v) == [b EXCEPT ![0] = MapPut(@, k, v)]
AddIndex(idx, k) == MapPut(idx, k, 0)

\* ------------------------------------------------------------------- evict
\* mutant: the capacity test is off by one
AtCapacity_OffByOne(sz, idx) == sz > 0 /\ CacheLen(idx) = sz + 1
\* mutant: the capacity test only asks for a bounded, non-empty cache
AtCapacity_AnyEntry(sz, idx) == sz > 0 /\ CacheLen(idx) >= 1
AtCapacity(sz, idx) == sz > 0 /\ CacheLen(idx) = sz

\* mutant: the scan does not stop at the first non-empty bucket
EvictChoices_AnyBucket(b) ==
  {[level |-> i, key |-> k] : <<i, k>> \in
     {ik \in Levels \X Keys : ik[2] \in DOMAIN b[ik[1]]}}

\* what the first iteration of the inner loop can yield: any key of the first
\* non-empty bucket in array order (map iteration order is undefined)
EvictChoices(b) ==
  {[level |-> i, key |-> k] : <<i, k>> \in
     {ik \in Levels \X Keys :
        /\ ik[2] \in DOMAIN b[ik[1]]
        /\ \A j \in Levels : (j < ik[1]) => DOMAIN b[j] = {}}}

\* mutant: the victim stays in the index
EvictIndex_Kept(idx, k) == idx
EvictIndex(idx, k) == MapDel(idx, k)
EvictBucket(b, i, k) == [b EXCEPT ![i] = MapDel(@, k)]

\* evict() as called from Set: not called when the capacity test fails, and
\* without effect when every bucket is empty
Victims(sz, idx, b) ==
  IF AtCapacity(sz, idx) /\ EvictChoices(b) # {} THEN EvictChoices(b) ELSE {NoVictim}

AfterEvictIndex(idx, victim) ==
  IF victim = NoVictim THEN idx ELSE EvictIndex(idx, victim.key)
AfterEvictBuckets(b, victim) ==
  IF victim = NoVictim THEN b ELSE EvictBucket(b, victim.level, victim.key)

\* ------------------------------------------------------------------ Remove
RemoveIndex(idx, key) == MapDel(idx, key)
\* mutant: the key is deleted from the index only
RemoveBucket_Skipped(b, i, key) == b
RemoveBucket(b, i, key) == [b EXCEPT ![i] = MapDel(@, key)]

\* ------------------------------------------------------ the single client
\* the record of a completed call: its arguments (key, value), the level i it
\* found key at, its results (v, ok of Get; n of Len), the entry Set evicted,
\* and whether Get consulted the random source
Call(o, k, value, i, v, ok, victim, n, drew) ==
  [op |-> o, key |-> k, value |-> value, i |-> i, v |-> v, ok |-> ok,
   victim |-> victim.key, vlevel |-> victim.level, n |-> n, drew |-> drew,
   r |-> NoDraw]

\* ------------------------------------------------------------ trace readers
\* A line is the byte string bufio.Scanner yields for it, as a sequence of
\* one-character strings.
Digits == <<"0", "1", "2", "3", "4", "5", "6", "7", "8", "9">>
IsDigit(c) == \E d \in 1..10 : Digits[d] = c
DigitVal(c) == (CHOOSE d \in 1..10 : Digits[d] = c) - 1

RECURSIVE DigitsVal(_, _)
DigitsVal(str, acc) ==
  IF Len(str) = 0 THEN acc ELSE DigitsVal(Tail(str), 10 * acc + DigitVal(Head(str)))

\* strconv.Atoi: an optional sign and at least one decimal digit; (0, err) on
\* a syntax error
Atoi(str) ==
  LET signed == Len(str) > 0 /\ Head(str) \in {"+", "-"}
      body == IF signed THEN Tail(str) ELSE str
  IN  IF Len(body) = 0 \/ \E j \in 1..Len(body) : ~IsDigit(body[j])
      THEN [n |-> 0, ok |-> FALSE]
      ELSE [n |-> IF signed /\ Head(str) = "-" THEN 0 - DigitsVal(body, 0)
                  ELSE DigitsVal(body, 0),
            ok |-> TRUE]

\* bytes.Index(line, arcSep): the 0-based index of the first " ", or -1
IndexSep(line) ==
  IF \E j \in 1..Len(line) : line[j] = " "
  THEN (CHOOSE j \in 1..Len(line) :
          line[j] = " " /\ \A h \in 1..(j - 1) : line[h] # " ") - 1
  ELSE 0 - 1

\* chompInt: &line[0] panics on an empty line and unsafe.String panics on the
\* length -1 of a line without separator; the error of Atoi is dropped
chompInt(line) ==
  LET sep == IndexSep(line)
  IN  IF Len(line) = 0 \/ sep < 0
      THEN [panic |-> TRUE, n |-> 0, rest |-> <<>>]
      ELSE [panic |-> FALSE,
            n |-> Atoi(SubSeq(line, 1, sep)).n,
            rest |-> SubSeq(line, sep + 2, Len(line))]

ErrNil == [kind |-> "nil", line |-> <<>>]
ErrEOF == [kind |-> "EOF", line |-> <<>>]
ErrInvalidLine(line) == [kind |-> "invalid line", line |-> line]
\* a run-time panic: the call does not return
Panic == [kind |-> "panic", line |-> <<>>]

\* r.scanner.Err() after Scan returned false at the end of the input
ScannerErr == ErrNil

\* the outcome of one Read: the reader fields after it, the keys it wrote
\* (keys[:n]), its result err, and whether Scan reported the end
ReadResult(pos, k, n, buf, err, hitEnd) ==
  [pos |-> pos, k |-> k, n |-> n, buf |-> buf, err |-> err, hitEnd |-> hitEnd]

\* arcReader.Read from keys[i] on, with buf = keys[:i]
RECURSIVE ArcFill(_, _, _, _, _, _, _)
ArcFill(lines, pos, k, n, i, len, buf) ==
  IF i = len THEN ReadResult(pos, k, n, buf, ErrNil, FALSE)
  ELSE IF n = 0
  THEN IF pos = Len(lines)
       THEN ReadResult(pos, k, n, buf, ScannerErr, TRUE)
       ELSE LET line == lines[pos + 1]
                c1 == chompInt(line)
                c2 == chompInt(c1.rest)
            IN  IF c1.panic THEN ReadResult(pos + 1, k, n, buf, Panic, FALSE)
                ELSE IF c2.panic THEN ReadResult(pos + 1, c1.n, n, buf, Panic, FALSE)
                ELSE ArcFill(lines, pos + 1, c1.n, c2.n, i, len, buf)
  ELSE ArcFill(lines, pos, k + 1, n - 1, i + 1, len, Append(buf, k))

\* lirsReader.Read from keys[i] on
RECURSIVE LirsFill(_, _, _, _, _)
LirsFill(lines, pos, i, len, buf) ==
  IF i = len THEN ReadResult(pos, 0, 0, buf, ErrNil, FALSE)
  ELSE IF pos = Len(lines)
  THEN ReadResult(pos, 0, 0, buf, ScannerErr, TRUE)
  ELSE LET line == lines[pos + 1]
       IN  IF Len(line) = 0 THEN ReadResult(pos + 1, 0, 0, buf, Panic, FALSE)
           ELSE LirsFill(lines, pos + 1, i + 1, len, Append(buf, Atoi(line).n))

\* the lines the inputs are made of
TraceLines ==
  { <<>>,
    <<"1", " ", "1", " ", "0", " ", "0">>,
    <<"1", "0", " ", "3", " ", "0", " ", "1">>,
    <<"3", " ", "2">>,
    <<"7">>,
    <<"1", " ", "b", " ", "2", " ", "3">>,
    <<"b", " ", "1", " ", "0">>,
    <<"4", " ", "0", " ", "9">>,
    <<"5", " ", "-", "1", " ", "0">> }

RECURSIVE SeqsUpTo(_, _)
SeqsUpTo(S, n) ==
  IF n = 0 THEN {<<>>}
  ELSE SeqsUpTo(S, n - 1) \cup
       {Append(q, x) : q \in {q \in SeqsUpTo(S, n - 1) : Len(q) = n - 1}, x \in S}

TraceInputs == SeqsUpTo(TraceLines, MaxLines)

NoRead == [n |-> 0, err |-> ErrNil, len |-> 0, buf |-> <<>>, from |-> 0, hitEnd |-> FALSE]

\* newARCReader / newLIRSReader over the input
NewReader(kind, lines) ==
  [kind |-> kind, lines |-> lines, pos |-> 0, k |-> 0, n |-> 0, out |-> <<>>,
   ret |-> NoRead]

\* no trace is open
NoReader == NewReader("none", <<>>)

\* -------------------------------------------------------------- Open, Close
\* A path is its base name followed by its extensions.
Paths ==
  { <<"t">>, <<"t", ".arc">>, <<"t", ".lirs">>, <<"t", ".txt">>,
    <<"t", ".gz">>, <<"t", ".arc", ".gz">>, <<"t", ".lirs", ".gz">>,
    <<"t", ".txt", ".gz">> }
\* filepath.Ext
Ext(path) == IF Len(path) > 1 THEN path[Len(path)] ELSE ""
\* path[:len(path)-3] of a path that ends in ".gz"
TrimGz(path) == SubSeq(path, 1, Len(path) - 1)

\* what Open acquires: the *os.File and the *gzip.Reader
Handles == {"file", "gzip"}

\* st: "none" before Open, "opened" / "failed" after it, "closed" after Close;
\* open: the handles that are open; acquired: the handles in the order Open
\* got them; closers: Trace.closers of the Trace Open returned; closed: the
\* handles in the order Close closed them; err, errs: the results
NoFiles ==
  [st |-> "none", path |-> <<>>, open |-> {}, acquired |-> <<>>, closers |-> <<>>,
   closed |-> <<>>, err |-> "nil", errs |-> <<>>]

\* Open returned (nil, err): the Trace it was building is unreachable
OpenFailed(path, acquired, err) ==
  [NoFiles EXCEPT !.st = "failed", !.path = path,
                  !.open = {acquired[j] : j \in 1..Len(acquired)},
                  !.acquired = acquired, !.err = err]
\* Open returned (trace, nil)
Opened(path, closers) ==
  [NoFiles EXCEPT !.st = "opened", !.path = path,
                  !.open = {closers[j] : j \in 1..Len(closers)},
                  !.acquired = closers, !.closers = closers]

\* the reader Open installs for the path left after the ".gz" is cut off
ReaderKind(path) ==
  CASE Ext(path) = ".arc" -> "arc"
    [] Ext(path) = ".lirs" -> "lirs"
    [] OTHER -> "none"

\* Open: exists is whether os.Open succeeds, gzipOk whether gzip.NewReader does
OpenResult(path, exists, gzipOk) ==
  IF ~exists THEN OpenFailed(path, <<>>, "os.Open")
  ELSE IF Ext(path) = ".gz" /\ ~gzipOk THEN OpenFailed(path, <<"file">>, "gzip.NewReader")
  ELSE LET closers == IF Ext(path) = ".gz" THEN <<"file", "gzip">> ELSE <<"file">>
           rest == IF Ext(path) = ".gz" THEN TrimGz(path) ELSE path
       IN  IF ReaderKind(rest) = "none"
           THEN OpenFailed(path, closers, "unknown trace file type")
           ELSE Opened(path, closers)

\* Close: the loop from closers[len-1] down to closers[0]; failing is the set
\* of handles whose Close reports an error (the handle is released anyway)
RECURSIVE CloseFrom(_, _, _)
CloseFrom(f, i, failing) ==
  IF i = 0 THEN f
  ELSE CloseFrom([f EXCEPT !.open = @ \ {f.closers[i]},
                           !.closed = Append(@, f.closers[i]),
                           !.errs = IF f.closers[i] \in failing
                                    THEN Append(@, f.closers[i]) ELSE @],
                 i - 1, failing)
\* errors.Join: nil when there is no error
Join(errs) == IF Len(errs) = 0 THEN "nil" ELSE "joined"
CloseResult(f, failing) ==
  LET g == CloseFrom(f, Len(f.closers), failing)
  IN  [g EXCEPT !.st = "closed", !.err = Join(g.errs)]

\* ------------------------------------------------------------------- Init
Snapshot(idx, b, g) == [index |-> idx, buckets |-> b, rng |-> g]

InitCache ==
  /\ size \in Sizes
  /\ NewAccepts(size)
  /\ index = EmptyMap
  /\ buckets = NewBuckets
  /\ rng = 0

InitThreads ==
  /\ mu = NoThread
  /\ pc = [t \in Threads |-> "idle"]
  /\ op = [t \in Threads |-> "none"]
  /\ akey = [t \in Threads |-> NoKey]
  /\ aval = [t \in Threads |-> ZeroValue]
  /\ li = [t \in Threads |-> NoLevel]
  /\ lv = [t \in Threads |-> ZeroValue]
  /\ lk = [t \in Threads |-> NoKey]
  /\ snap = Snapshot(EmptyMap, NewBuckets, 0)

InitHist ==
  /\ last = Call("New", NoKey, ZeroValue, NoLevel, ZeroValue, NewAccepts(size),
                 NoVictim, 0, FALSE)
  /\ latest = EmptyMap

Init == InitCache /\ InitThreads /\ InitHist /\ tr = NoReader /\ files = NoFiles

\* mutant: a miss reports found
GetResult_MissReportsFound(idx, b, key) ==
  <<IF MapHas(idx, key) THEN MapGet(b[idx[key]], key) ELSE ZeroValue, TRUE>>
\* the (v, ok) Get returns in a given state
GetResult(idx, b, key) ==
  IF MapHas(idx, key) THEN <<MapGet(b[idx[key]], key), TRUE>>
  ELSE <<ZeroValue, FALSE>>

\* Get on a key that is not in the index: (zero, false), nothing written
GetMiss(key) ==
  /\ ~MapHas(index, key)
  /\ last' = Call("Get", key, ZeroValue, NoLevel, GetResult(index, buckets, key)[1],
                  GetResult(index, buckets, key)[2], NoVictim, 0, FALSE)
  /\ UNCHANGED <<size, rng, index, buckets, latest>>

\* Get on a cached key: read the value, then promote or not
GetHit(key, r) ==
  /\ MapHas(index, key)
  /\ LET i == index[key]
     IN  /\ IF ShouldPromote(i, r)
            THEN /\ buckets' = PromoteBuckets(buckets, i, key)
                 /\ index' = PromoteIndex(index, i, key)
            ELSE UNCHANGED <<index, buckets>>
         /\ rng' = IF NeedsDraw(i) THEN Float64(rng) ELSE rng
         /\ last' = [Call("Get", key, ZeroValue, i, GetResult(index, buckets, key)[1],
                          GetResult(index, buckets, key)[2], NoVictim, 0, NeedsDraw(i))
                       EXCEPT !.r = IF NeedsDraw(i) THEN r ELSE NoDraw]
  /\ UNCHANGED <<size, latest>>

\* Set on a cached key: reset
SetExisting(key, value) ==
  /\ MapHas(index, key)
  /\ LET i == index[key]
     IN  /\ buckets' = ResetBuckets(buckets, i, key, value)
         /\ index' = ResetIndex(index, i, key)
         /\ last' = Call("Set", key, value, i, ZeroValue, FALSE, NoVictim, 0, FALSE)
  /\ latest' = MapPut(latest, key, value)
  /\ UNCHANGED <<size, rng>>

\* Set on a new key: evict when at capacity, then add
SetNew(key, value) ==
  /\ ~MapHas(index, key)
  /\ \E victim \in Victims(size, index, buckets) :
       /\ buckets' = AddValue(AfterEvictBuckets(buckets, victim), key, value)
       /\ index' = AddIndex(AfterEvictIndex(index, victim), key)
       /\ last' = Call("Set", key, value, NoLevel, ZeroValue, FALSE, victim, 0, FALSE)
       /\ latest' = MapPut(MapDel(latest, victim.key), key, value)
  /\ UNCHANGED <<size, rng>>

Remove(key) ==
  /\ IF MapHas(index, key)
     THEN /\ index' = RemoveIndex(index, key)
          /\ buckets' = RemoveBucket(buckets, index[key], key)
          /\ last' = Call("Remove", key, ZeroValue, index[key], ZeroValue, FALSE,
                          NoVictim, 0, FALSE)
     ELSE /\ UNCHANGED <<index, buckets>>
          /\ last' = Call("Remove", key, ZeroValue, NoLevel, ZeroValue, FALSE,
                          NoVictim, 0, FALSE)
  /\ latest' = MapDel(latest, key)
  /\ UNCHANGED <<size, rng>>

LenCall ==
  /\ last' = Call("Len", NoKey, ZeroValue, NoLevel, ZeroValue, FALSE, NoVictim,
                  CacheLen(index), FALSE)
  /\ UNCHANGED <<size, rng, index, buckets, latest>>

Next ==
  \/ \E key \in Keys : GetMiss(key) /\ UNCHANGED <<threadVars, traceVars>>
  \/ \E key \in Keys, r \in Draws : GetHit(key, r) /\ UNCHANGED <<threadVars, traceVars>>
  \/ \E key \in Keys, value \in Values : SetExisting(key, value) /\ UNCHANGED <<threadVars, traceVars>>
  \/ \E key \in Keys, value \in Values : SetNew(key, value) /\ UNCHANGED <<threadVars, traceVars>>
  \/ \E key \in Keys : Remove(key) /\ UNCHANGED <<threadVars, traceVars>>
  \/ LenCall /\ UNCHANGED <<threadVars, traceVars>>

Spec == Init /\ [][Next]_vars


\* ------------------------------------------------- the methods, atomically
\* What one call, run alone from the cache c = Snapshot(index, buckets, rng),
\* can leave behind and return: the cache after it, v and ok of Get (v also
\* carries the n of Len).
Outcome(idx, b, g, v, ok) == [index |-> idx, buckets |-> b, rng |-> g, v |-> v, ok |-> ok]

GetOutcomes(key, c) ==
  IF ~MapHas(c.index, key)
  THEN {Outcome(c.index, c.buckets, c.rng, ZeroValue, FALSE)}
  ELSE LET i == c.index[key]
           v == GetResult(c.index, c.buckets, key)[1]
           g == IF NeedsDraw(i) THEN Float64(c.rng) ELSE c.rng
       IN  {IF ShouldPromote(i, r)
            THEN Outcome(PromoteIndex(c.index, i, key),
                         PromoteBuckets(c.buckets, i, key), g, v, TRUE)
            ELSE Outcome(c.index, c.buckets, g, v, TRUE) : r \in Draws}

SetOutcomes(key, value, sz, c) ==
  IF MapHas(c.index, key)
  THEN LET i == c.index[key]
       IN  {Outcome(ResetIndex(c.index, i, key),
                    ResetBuckets(c.buckets, i, key, value), c.rng, ZeroValue, FALSE)}
  ELSE {Outcome(AddIndex(AfterEvictIndex(c.index, victim), key),
                AddValue(AfterEvictBuckets(c.buckets, victim), key, value),
                c.rng, ZeroValue, FALSE) : victim \in Victims(sz, c.index, c.buckets)}

RemoveOutcomes(key, c) ==
  IF MapHas(c.index, key)
  THEN {Outcome(RemoveIndex(c.index, key),
                RemoveBucket(c.buckets, c.index[key], key), c.rng, ZeroValue, FALSE)}
  ELSE {Outcome(c.index, c.buckets, c.rng, ZeroValue, FALSE)}

LenOutcomes(c) == {Outcome(c.index, c.buckets, c.rng, CacheLen(c.index), FALSE)}

AtomicOutcomes(o, key, value, sz, c) ==
  CASE o = "Get" -> GetOutcomes(key, c)
    [] o = "Set" -> SetOutcomes(key, value, sz, c)
    [] o = "Remove" -> RemoveOutcomes(key, c)
    [] o = "Len" -> LenOutcomes(c)
    [] OTHER -> {}

\* ------------------------------------------------------------- goroutines
\* A goroutine is idle (in no call), blocked in c.mu.Lock() ("lock"), or at a
\* statement between Lock and the deferred Unlock. The arguments of a call are
\* read by nobody before the call holds the lock; they are drawn when it gets it.
Methods == {"Get", "Set", "Remove", "Len"}

\* mutant: Lock does not wait for the holder
LockFree_Always(m) == TRUE
\* sync.Mutex.Lock returns only when nobody holds the mutex
LockFree(m) == m = NoThread

FirstStatement(o) ==
  CASE o = "Get" -> "get_lookup"
    [] o = "Set" -> "set_lookup"
    [] o = "Remove" -> "remove_lookup"
    [] o = "Len" -> "len_read"

Goto(t, label) == pc' = [pc EXCEPT ![t] = label]

\* a goroutine calls a method and reaches c.mu.Lock()
Invoke(t) ==
  /\ pc[t] = "idle"
  /\ Goto(t, "lock")
  /\ UNCHANGED <<size, rng, index, buckets, mu, op, akey, aval, li, lv, lk, last, latest, snap>>

\* c.mu.Lock() of Get, Set, Remove, Len
Lock(t) ==
  /\ pc[t] = "lock"
  /\ LockFree(mu)
  /\ mu' = t
  /\ \E o \in Methods, key \in Keys, value \in Values :
       /\ op' = [op EXCEPT ![t] = o]
       /\ akey' = [akey EXCEPT ![t] = IF o = "Len" THEN NoKey ELSE key]
       /\ aval' = [aval EXCEPT ![t] = IF o = "Set" THEN value ELSE ZeroValue]
       /\ Goto(t, FirstStatement(o))
  /\ snap' = Snapshot(index, buckets, rng)
  /\ UNCHANGED <<size, rng, index, buckets, li, lv, lk, last, latest>>

\* mutant: the call returns without releasing the mutex
Unlock_KeepsMutex(t) ==
  /\ pc[t] = "unlock"
  /\ Goto(t, "idle")
  /\ op' = [op EXCEPT ![t] = "none"]
  /\ akey' = [akey EXCEPT ![t] = NoKey]
  /\ aval' = [aval EXCEPT ![t] = ZeroValue]
  /\ li' = [li EXCEPT ![t] = NoLevel]
  /\ lv' = [lv EXCEPT ![t] = ZeroValue]
  /\ lk' = [lk EXCEPT ![t] = NoKey]
  /\ snap' = Snapshot(index, buckets, rng)
  /\ UNCHANGED <<size, rng, index, buckets, mu, last, latest>>
\* the deferred c.mu.Unlock(), then the return to the caller
Unlock(t) ==
  /\ pc[t] = "unlock"
  /\ mu' = NoThread
  /\ Goto(t, "idle")
  /\ op' = [op EXCEPT ![t] = "none"]
  /\ akey' = [akey EXCEPT ![t] = NoKey]
  /\ aval' = [aval EXCEPT ![t] = ZeroValue]
  /\ li' = [li EXCEPT ![t] = NoLevel]
  /\ lv' = [lv EXCEPT ![t] = ZeroValue]
  /\ lk' = [lk EXCEPT ![t] = NoKey]
  /\ snap' = Snapshot(index, buckets, rng)
  /\ UNCHANGED <<size, rng, index, buckets, last, latest>>

\* Get: i, ok := c.index[key]; if !ok { return v, false }
GetLookup(t) ==
  /\ pc[t] = "get_lookup"
  /\ IF MapHas(index, akey[t])
     THEN /\ li' = [li EXCEPT ![t] = index[akey[t]]]
          /\ Goto(t, "get_read")
     ELSE /\ UNCHANGED li
          /\ Goto(t, "unlock")
  /\ UNCHANGED <<size, rng, index, buckets, mu, op, akey, aval, lv, lk, last, latest, snap>>

\* Get: v = c.buckets[i][key]
GetRead(t) ==
  /\ pc[t] = "get_read"
  /\ lv' = [lv EXCEPT ![t] = MapGet(buckets[li[t]], akey[t])]
  /\ Goto(t, "get_decide")
  /\ UNCHANGED <<size, rng, index, buckets, mu, op, akey, aval, li, lk, last, latest, snap>>

\* Get: if i == 0 || (i < maxBucketIndex && c.rng.Float64() < ...) { promote }
GetDecide(t) ==
  /\ pc[t] = "get_decide"
  /\ \E r \in Draws :
       Goto(t, IF ShouldPromote(li[t], r) THEN "promote_copy" ELSE "unlock")
  /\ rng' = IF NeedsDraw(li[t]) THEN Float64(rng) ELSE rng
  /\ UNCHANGED <<size, index, buckets, mu, op, akey, aval, li, lv, lk, last, latest, snap>>

\* promote: c.buckets[i+1][key] = c.buckets[i][key]
PromoteCopyStep(t) ==
  /\ pc[t] = "promote_copy"
  /\ buckets' = PromoteCopy(buckets, li[t], akey[t])
  /\ Goto(t, "promote_index")
  /\ UNCHANGED <<size, rng, index, mu, op, akey, aval, li, lv, lk, last, latest, snap>>

\* promote: c.index[key] = i + 1
PromoteIndexStep(t) ==
  /\ pc[t] = "promote_index"
  /\ index' = PromoteIndex(index, li[t], akey[t])
  /\ Goto(t, "promote_delete")
  /\ UNCHANGED <<size, rng, buckets, mu, op, akey, aval, li, lv, lk, last, latest, snap>>

\* promote: delete(c.buckets[i], key)
PromoteDeleteStep(t) ==
  /\ pc[t] = "promote_delete"
  /\ buckets' = PromoteDelete(buckets, li[t], akey[t])
  /\ Goto(t, "unlock")
  /\ UNCHANGED <<size, rng, index, mu, op, akey, aval, li, lv, lk, last, latest, snap>>

\* Set: if i, ok := c.index[key]; ok { reset; return }
SetLookup(t) ==
  /\ pc[t] = "set_lookup"
  /\ IF MapHas(index, akey[t])
     THEN /\ li' = [li EXCEPT ![t] = index[akey[t]]]
          /\ Goto(t, "reset_value")
     ELSE /\ UNCHANGED li
          /\ Goto(t, "set_capacity")
  /\ UNCHANGED <<size, rng, index, buckets, mu, op, akey, aval, lv, lk, last, latest, snap>>

\* reset: c.buckets[0][key] = value; if i > 0 { ... }
ResetValueStep(t) ==
  /\ pc[t] = "reset_value"
  /\ buckets' = ResetValue(buckets, akey[t], aval[t])
  /\ Goto(t, IF li[t] > 0 THEN "reset_delete" ELSE "unlock")
  /\ UNCHANGED <<size, rng, index, mu, op, akey, aval, li, lv, lk, last, latest, snap>>

\* reset: delete(c.buckets[i], key)
ResetDeleteStep(t) ==
  /\ pc[t] = "reset_delete"
  /\ buckets' = ResetDelete(buckets, li[t], akey[t])
  /\ Goto(t, "reset_index")
  /\ UNCHANGED <<size, rng, index, mu, op, akey, aval, li, lv, lk, last, latest, snap>>

\* reset: c.index[key] = 0
ResetIndexStep(t) ==
  /\ pc[t] = "reset_index"
  /\ index' = ResetIndex(index, li[t], akey[t])
  /\ Goto(t, "unlock")
  /\ UNCHANGED <<size, rng, buckets, mu, op, akey, aval, li, lv, lk, last, latest, snap>>

\* Set: if c.size > 0 && len(c.index) == c.size { c.evict() }
SetCapacity(t) ==
  /\ pc[t] = "set_capacity"
  /\ Goto(t, IF AtCapacity(size, index) THEN "evict_index" ELSE "add_value")
  /\ UNCHANGED <<size, rng, index, buckets, mu, op, akey, aval, li, lv, lk, last, latest, snap>>

\* evict: the loops yield the first key of the first non-empty bucket (or end
\* without one); delete(c.index, k)
EvictIndexStep(t) ==
  /\ pc[t] = "evict_index"
  /\ IF EvictChoices(buckets) = {}
     THEN /\ Goto(t, "add_value")
          /\ UNCHANGED <<index, li, lk>>
     ELSE \E victim \in EvictChoices(buckets) :
            /\ index' = EvictIndex(index, victim.key)
            /\ li' = [li EXCEPT ![t] = victim.level]
            /\ lk' = [lk EXCEPT ![t] = victim.key]
            /\ Goto(t, "evict_bucket")
  /\ UNCHANGED <<size, rng, buckets, mu, op, akey, aval, lv, last, latest, snap>>

\* evict: delete(bucket, k); return
EvictBucketStep(t) ==
  /\ pc[t] = "evict_bucket"
  /\ buckets' = EvictBucket(buckets, li[t], lk[t])
  /\ Goto(t, "add_value")
  /\ UNCHANGED <<size, rng, index, mu, op, akey, aval, li, lv, lk, last, latest, snap>>

\* add: c.buckets[0][k] = v
AddValueStep(t) ==
  /\ pc[t] = "add_value"
  /\ buckets' = AddValue(buckets, akey[t], aval[t])
  /\ Goto(t, "add_index")
  /\ UNCHANGED <<size, rng, index, mu, op, akey, aval, li, lv, lk, last, latest, snap>>

\* add: c.index[k] = 0
AddIndexStep(t) ==
  /\ pc[t] = "add_index"
  /\ index' = AddIndex(index, akey[t])
  /\ Goto(t, "unlock")
  /\ UNCHANGED <<size, rng, buckets, mu, op, akey, aval, li, lv, lk, last, latest, snap>>

\* Remove: if i, ok := c.index[key]; ok { ... }
RemoveLookup(t) ==
  /\ pc[t] = "remove_lookup"
  /\ IF MapHas(index, akey[t])
     THEN /\ li' = [li EXCEPT ![t] = index[akey[t]]]
          /\ Goto(t, "remove_index")
     ELSE /\ UNCHANGED li
          /\ Goto(t, "unlock")
  /\ UNCHANGED <<size, rng, index, buckets, mu, op, akey, aval, lv, lk, last, latest, snap>>

\* Remove: delete(c.index, key)
RemoveIndexStep(t) ==
  /\ pc[t] = "remove_index"
  /\ index' = RemoveIndex(index, akey[t])
  /\ Goto(t, "remove_bucket")
  /\ UNCHANGED <<size, rng, buckets, mu, op, akey, aval, li, lv, lk, last, latest, snap>>

\* Remove: delete(c.buckets[i], key)
RemoveBucketStep(t) ==
  /\ pc[t] = "remove_bucket"
  /\ buckets' = RemoveBucket(buckets, li[t], akey[t])
  /\ Goto(t, "unlock")
  /\ UNCHANGED <<size, rng, index, mu, op, akey, aval, li, lv, lk, last, latest, snap>>

\* Len: return len(c.index)
LenRead(t) ==
  /\ pc[t] = "len_read"
  /\ lv' = [lv EXCEPT ![t] = CacheLen(index)]
  /\ Goto(t, "unlock")
  /\ UNCHANGED <<size, rng, index, buckets, mu, op, akey, aval, li, lk, last, latest, snap>>

\* what a call returns to its caller when it leaves Unlock: v, ok of Get (ok is
\* the ok of the index lookup), n of Len
RetV(t) == lv[t]
RetOk(t) == op[t] = "Get" /\ li[t] # NoLevel
Returns(t) == pc[t] = "unlock" /\ pc'[t] = "idle"

\* the statements that read or write the index or a bucket
Inside ==
  {"get_lookup", "get_read", "get_decide", "promote_copy", "promote_index",
   "promote_delete", "set_lookup", "reset_value", "reset_delete", "reset_index",
   "set_capacity", "evict_index", "evict_bucket", "add_value", "add_index",
   "remove_lookup", "remove_index", "remove_bucket", "len_read", "unlock"}

NextConc ==
  \/ \E t \in Threads : Invoke(t) /\ UNCHANGED traceVars
  \/ \E t \in Threads : Lock(t) /\ UNCHANGED traceVars
  \/ \E t \in Threads : Unlock(t) /\ UNCHANGED traceVars
  \/ \E t \in Threads : GetLookup(t) /\ UNCHANGED traceVars
  \/ \E t \in Threads : GetRead(t) /\ UNCHANGED traceVars
  \/ \E t \in Threads : GetDecide(t) /\ UNCHANGED traceVars
  \/ \E t \in Threads : PromoteCopyStep(t) /\ UNCHANGED traceVars
  \/ \E t \in Threads : PromoteIndexStep(t) /\ UNCHANGED traceVars
  \/ \E t \in Threads : PromoteDeleteStep(t) /\ UNCHANGED traceVars
  \/ \E t \in Threads : SetLookup(t) /\ UNCHANGED traceVars
  \/ \E t \in Threads : ResetValueStep(t) /\ UNCHANGED traceVars
  \/ \E t \in Threads : ResetDeleteStep(t) /\ UNCHANGED traceVars
  \/ \E t \in Threads : ResetIndexStep(t) /\ UNCHANGED traceVars
  \/ \E t \in Threads : SetCapacity(t) /\ UNCHANGED traceVars
  \/ \E t \in Threads : EvictIndexStep(t) /\ UNCHANGED traceVars
  \/ \E t \in Threads : EvictBucketStep(t) /\ UNCHANGED traceVars
  \/ \E t \in Threads : AddValueStep(t) /\ UNCHANGED traceVars
  \/ \E t \in Threads : AddIndexStep(t) /\ UNCHANGED traceVars
  \/ \E t \in Threads : RemoveLookup(t) /\ UNCHANGED traceVars
  \/ \E t \in Threads : RemoveIndexStep(t) /\ UNCHANGED traceVars
  \/ \E t \in Threads : RemoveBucketStep(t) /\ UNCHANGED traceVars
  \/ \E t \in Threads : LenRead(t) /\ UNCHANGED traceVars

SpecConc == Init /\ [][NextConc]_vars

\* ------------------------------------------------------------- scheduling
\* a statement of goroutine t between its Lock and its return: the holder of
\* the mutex is runnable, and the scheduler runs every runnable goroutine
Body(t) ==
  \/ Unlock(t) \/ GetLookup(t) \/ GetRead(t) \/ GetDecide(t)
  \/ PromoteCopyStep(t) \/ PromoteIndexStep(t) \/ PromoteDeleteStep(t)
  \/ SetLookup(t) \/ ResetValueStep(t) \/ ResetDeleteStep(t) \/ ResetIndexStep(t)
  \/ SetCapacity(t) \/ EvictIndexStep(t) \/ EvictBucketStep(t)
  \/ AddValueStep(t) \/ AddIndexStep(t)
  \/ RemoveLookup(t) \/ RemoveIndexStep(t) \/ RemoveBucketStep(t) \/ LenRead(t)

\* goroutines are not obliged to call (no fairness on Invoke); a goroutine
\* that runs goes on running (weak fairness on its statements); a goroutine
\* blocked in Lock gets the mutex if it is free again and again (strong
\* fairness: sync.Mutex hands the mutex to a waiter starved for 1ms)
Fairness ==
  \A t \in Threads :
    /\ WF_vars(Body(t) /\ UNCHANGED traceVars)
    /\ SF_vars(Lock(t) /\ UNCHANGED traceVars)

\* the caches that evict: New(size) with 1 <= size
LiveSizes == 1..MaxSize
InitLive == Init /\ size \in LiveSizes

SpecLive == InitLive /\ [][NextConc]_vars /\ Fairness


\* --------------------------------------------------------- trace: Read
AfterRead(t, len, res) ==
  [t EXCEPT !.pos = res.pos, !.k = res.k, !.n = res.n,
            !.out = t.out \o res.buf,
            !.ret = [n |-> Len(res.buf), err |-> res.err, len |-> len,
                     buf |-> res.buf, from |-> t.pos, hitEnd |-> res.hitEnd]]

\* a goroutine that panicked makes no further call
ArcRead(len) ==
  /\ tr.kind = "arc"
  /\ tr.ret.err # Panic
  /\ Len(tr.out) < MaxOut
  /\ tr' = AfterRead(tr, len, ArcFill(tr.lines, tr.pos, tr.k, tr.n, 0, len, <<>>))
  /\ UNCHANGED <<size, rng, index, buckets, mu, pc, op, akey, aval, li, lv, lk, snap, last, latest, files>>

LirsRead(len) ==
  /\ tr.kind = "lirs"
  /\ tr.ret.err # Panic
  /\ tr' = AfterRead(tr, len, LirsFill(tr.lines, tr.pos, 0, len, <<>>))
  /\ UNCHANGED <<size, rng, index, buckets, mu, pc, op, akey, aval, li, lv, lk, snap, last, latest, files>>

InitTrace ==
  /\ size = 0
  /\ NewAccepts(size)
  /\ index = EmptyMap
  /\ buckets = NewBuckets
  /\ rng = 0
  /\ InitThreads
  /\ InitHist
  /\ \E kind \in {"arc", "lirs"}, lines \in TraceInputs : tr = NewReader(kind, lines)
  /\ files = NoFiles

NextTrace ==
  \/ \E len \in 0..MaxBuf : ArcRead(len)
  \/ \E len \in 0..MaxBuf : LirsRead(len)

SpecTrace == InitTrace /\ [][NextTrace]_vars

\* ------------------------------------------------- trace: Open, Read, Close
\* Open(path) over a file that holds lines
Open(path, exists, gzipOk, lines) ==
  /\ files.st = "none"
  /\ files' = OpenResult(path, exists, gzipOk)
  /\ tr' = IF files'.st = "opened"
           THEN NewReader(ReaderKind(IF Ext(path) = ".gz" THEN TrimGz(path) ELSE path),
                          lines)
           ELSE tr
  /\ UNCHANGED <<size, rng, index, buckets, mu, pc, op, akey, aval, li, lv, lk, snap, last, latest>>

\* Trace.Read: t.r.Read(k)
TraceRead(len) ==
  /\ files.st = "opened"
  /\ (ArcRead(len) \/ LirsRead(len))

\* Trace.Close
Close(failing) ==
  /\ files.st = "opened"
  /\ files' = CloseResult(files, failing)
  /\ UNCHANGED <<size, rng, index, buckets, mu, pc, op, akey, aval, li, lv, lk, snap, last, latest, tr>>

InitOpen ==
  /\ size = 0
  /\ NewAccepts(size)
  /\ index = EmptyMap
  /\ buckets = NewBuckets
  /\ rng = 0
  /\ InitThreads
  /\ InitHist
  /\ tr = NoReader
  /\ files = NoFiles

NextOpen ==
  \/ \E path \in Paths, exists \in BOOLEAN, gzipOk \in BOOLEAN, lines \in TraceInputs :
       Open(path, exists, gzipOk, lines)
  \/ \E len \in 0..MaxBuf : TraceRead(len)
  \/ \E failing \in SUBSET Handles : Close(failing)

SpecOpen == InitOpen /\ [][NextOpen]_vars

\* ------------------------------------------------------------- type sanity
TypeOK ==
  /\ size \in Sizes
  /\ DOMAIN index \subseteq Keys
  /\ \A k \in DOMAIN index : index[k] \in Levels
  /\ DOMAIN buckets = Levels
  /\ \A i \in Levels : DOMAIN buckets[i] \subseteq Keys
  /\ \A i \in Levels : \A k \in DOMAIN buckets[i] : buckets[i][k] \in Values

\* ================================================================== claims

\* the buckets partition the cached keys consistently with the index
KeyInItsBucketOnly(idx, b) ==
  \A k \in DOMAIN idx :
    /\ idx[k] \in Levels
    /\ k \in DOMAIN b[idx[k]]
    /\ \A j \in Levels \ {idx[k]} : k \notin DOMAIN b[j]
NoStrayKey(idx, b) == \A i \in Levels : DOMAIN b[i] \subseteq DOMAIN idx
RECURSIVE BucketSum(_, _)
BucketSum(b, i) ==
  IF i < 0 THEN 0 ELSE Cardinality(DOMAIN b[i]) + BucketSum(b, i - 1)
Partition(idx, b) ==
  /\ KeyInItsBucketOnly(idx, b)
  /\ NoStrayKey(idx, b)
  /\ BucketSum(b, maxBucketIndex) = CacheLen(idx)

\* C1: for a cache built with size > 0, Len() (the size of the index, and
\* every value a Len call returned) is at most size in every reachable state.
C1_LenAtMostSize ==
  size > 0 =>
    /\ CacheLen(index) <= size
    /\ (last.op = "Len" => last.n <= size)
C1_Witness ==
  /\ size > 0
  /\ CacheLen(index) = size
  /\ last.op = "Set"
  /\ last.victim # NoKey

\* C2: between operations every key of the index is in bucket index[key] and
\* in no other bucket, no bucket holds a key missing from the index, and the
\* bucket sizes sum to the index size that Len() returns.
C2_BucketsPartitionIndex == Partition(index, buckets)
C2_Witness ==
  /\ last.op = "Get"
  /\ last.ok
  /\ \E k1, k2 \in DOMAIN index : index[k1] >= 2 /\ index[k2] = 0

\* C3: Get(k) returns (v, true) with v the value of the most recent Set(k, v)
\* whenever k was not removed or evicted since, whatever Gets and operations on
\* other keys intervened; so in every state a Get of such a key would return
\* that value, and every Get that ran did.
C3_GetReturnsLatestSet ==
  /\ \A k \in DOMAIN latest : GetResult(index, buckets, k) = <<latest[k], TRUE>>
  /\ (last.op = "Get" /\ last.key \in DOMAIN latest) =>
       (last.ok /\ last.v = latest[last.key])
C3_Witness ==
  /\ last.op = "Get"
  /\ last.key \in DOMAIN latest
  /\ last.ok
  /\ last.v = MaxVal
  /\ index[last.key] = maxBucketIndex
  /\ CacheLen(index) > 1

\* C4: whenever Set evicts an entry, the victim's level is at most the level of
\* every key cached at that moment.
C4_VictimAtLowestLevel ==
  [][(last'.op = "Set" /\ last'.victim # NoKey) =>
       /\ last'.victim \in DOMAIN index
       /\ last'.vlevel = index[last'.victim]
       /\ \A k \in DOMAIN index : index[last'.victim] <= index[k]]_vars
C4_Witness ==
  /\ last.op = "Set"
  /\ last.victim # NoKey
  /\ last.vlevel = 0
  /\ \E k \in DOMAIN index : index[k] = maxBucketIndex

\* C5: with size > 0 and Len() = size, Set(k, v) of a key that is not cached
\* removes exactly one previously cached key, different from k, and inserts k
\* at level 0: afterwards Len() = size, Get(k) returns (v, true) and the
\* removed key misses.
C5_SetAtCapacityEvictsOne ==
  [][(last'.op = "Set" /\ ~MapHas(index, last'.key) /\ AtCapacity(size, index)) =>
       LET k == last'.key
           gone == (DOMAIN index) \ (DOMAIN index')
       IN  /\ Cardinality(gone) = 1
           /\ gone = {last'.victim}
           /\ k \notin gone
           /\ DOMAIN index' = ((DOMAIN index) \ gone) \cup {k}
           /\ index'[k] = 0
           /\ CacheLen(index') = size
           /\ GetResult(index', buckets', k) = <<last'.value, TRUE>>
           /\ \A g \in gone : GetResult(index', buckets', g) = <<ZeroValue, FALSE>>
           /\ \A g \in gone : \A i \in Levels : g \notin DOMAIN buckets'[i]]_vars
C5_Witness ==
  /\ size = 1
  /\ last.op = "Set"
  /\ last.key = 2
  /\ last.victim = 1
  /\ GetResult(index, buckets, 1) = <<ZeroValue, FALSE>>
  /\ GetResult(index, buckets, 2) = <<last.value, TRUE>>
  /\ CacheLen(index) = 1

\* C6: Set(k, v2) on a cached key, at any level, replaces its value with v2 and
\* leaves k at level 0 and in bucket 0 only, with Len() unchanged; a following
\* Get(k) returns (v2, true).
C6_OverwriteResetsLevel ==
  [][(last'.op = "Set" /\ MapHas(index, last'.key)) =>
       LET k == last'.key
       IN  /\ DOMAIN index' = DOMAIN index
           /\ CacheLen(index') = CacheLen(index)
           /\ index'[k] = 0
           /\ k \in DOMAIN buckets'[0]
           /\ buckets'[0][k] = last'.value
           /\ \A j \in Levels \ {0} : k \notin DOMAIN buckets'[j]
           /\ GetResult(index', buckets', k) = <<last'.value, TRUE>>]_vars
C6_Witness ==
  /\ last.op = "Set"
  /\ last.i = maxBucketIndex
  /\ last.value = MaxVal
  /\ index[last.key] = 0
  /\ AtCapacity(size, index)

\* C7: Remove(k) on a cached key deletes k from its bucket and from the index,
\* so Len() drops by one and the next Get(k) misses; Remove(k) on a key that is
\* not cached changes nothing.
C7_RemoveDeletes ==
  [][(last'.op = "Remove") =>
       LET k == last'.key
       IN  IF MapHas(index, k)
           THEN /\ DOMAIN index' = (DOMAIN index) \ {k}
                /\ CacheLen(index') = CacheLen(index) - 1
                /\ \A i \in Levels : k \notin DOMAIN buckets'[i]
                /\ GetResult(index', buckets', k) = <<ZeroValue, FALSE>>
           ELSE UNCHANGED <<size, index, buckets, rng>>]_vars
C7_Witness ==
  /\ last.op = "Remove"
  /\ last.i >= 1
  /\ CacheLen(index) >= 1
  /\ GetResult(index, buckets, last.key) = <<ZeroValue, FALSE>>

\* C8: a cache built with size = 0 never retains entries: Len() is 0 and every
\* Get misses.
C8_SizeZeroRetainsNothing ==
  size = 0 =>
    /\ CacheLen(index) = 0
    /\ (last.op = "Get" => ~last.ok)

\* C9: New with a negative size is rejected at construction, so no cache with
\* a negative size is ever in use.
C9_NegativeSizeRejected ==
  size < 0 => (last.op = "New" /\ ~last.ok)

\* C10: with several goroutines interleaving Get, Set and Remove, the partition
\* invariant and the capacity bound hold in every state in which the lock is
\* free; a goroutine is at a statement that reads or writes the index or a
\* bucket only while it holds the lock, so the transient states of promote and
\* reset are never seen by a second goroutine.
C10_ConsistentWhenUnlocked ==
  /\ mu = NoThread =>
       /\ Partition(index, buckets)
       /\ (size > 0 => CacheLen(index) <= size)
  /\ \A t \in Threads : pc[t] \in Inside => mu = t
  /\ \A t, u \in Threads : (pc[t] \in Inside /\ pc[u] \in Inside) => t = u
C10_Witness ==
  /\ \E t, u \in Threads :
       /\ mu = t
       /\ pc[t] = "promote_delete"
       /\ pc[u] = "lock"
       /\ \E i \in Levels : akey[t] \in DOMAIN buckets[i] /\ akey[t] \in DOMAIN buckets[i + 1]
  /\ ~Partition(index, buckets)
  /\ size > 0

\* the entry of key k: its level and its value, or absent
Entry(idx, b, k) ==
  IF MapHas(idx, k) THEN <<idx[k], MapGet(b[idx[k]], k)>> ELSE <<NoLevel, ZeroValue>>

\* C12: a Get that hits a key at level 0 always moves it to level 1, whatever
\* the random source would yield; the source is not consulted.
C12_FirstPromotionCertain ==
  [][(last'.op = "Get" /\ MapHas(index, last'.key) /\ index[last'.key] = 0) =>
       /\ MapHas(index', last'.key)
       /\ index'[last'.key] = 1
       /\ last'.key \in DOMAIN buckets'[1]
       /\ last'.key \notin DOMAIN buckets'[0]
       /\ last'.ok
       /\ rng' = rng]_vars
C12_Witness ==
  /\ last.op = "Get"
  /\ last.i = 0
  /\ last.ok
  /\ index[last.key] = 1
  /\ last.r = NoDraw

\* C13: a key at level L-1 stays there through every Get, whatever the draw;
\* its level or value changes only by a Set or a Remove of that key or by its
\* eviction.
C13_TerminalLevelAbsorbs ==
  [][/\ (last'.op = "Get" /\ MapHas(index, last'.key)
           /\ index[last'.key] = maxBucketIndex) =>
          /\ index' = index
          /\ buckets' = buckets
          /\ rng' = rng
     /\ \A k \in DOMAIN index :
          (index[k] = maxBucketIndex
             /\ Entry(index', buckets', k) # Entry(index, buckets, k)) =>
            \/ last'.op = "Set" /\ (last'.key = k \/ last'.victim = k)
            \/ last'.op = "Remove" /\ last'.key = k]_vars
C13_Witness ==
  /\ last.op = "Get"
  /\ last.i = maxBucketIndex
  /\ last.ok
  /\ index[last.key] = maxBucketIndex
  /\ last.key \in DOMAIN buckets[maxBucketIndex]

\* C14: Get(k) on a key that is not cached returns found = false and changes
\* nothing: index, buckets, Len() and the random source are as before.
C14_MissHasNoEffect ==
  [][(last'.op = "Get" /\ ~MapHas(index, last'.key)) =>
       /\ ~last'.ok
       /\ last'.v = ZeroValue
       /\ index' = index
       /\ buckets' = buckets
       /\ CacheLen(index') = CacheLen(index)
       /\ rng' = rng
       /\ size' = size]_vars
C14_Witness ==
  /\ last.op = "Get"
  /\ ~last.ok
  /\ ~MapHas(index, last.key)
  /\ CacheLen(index) >= 1
  /\ rng # 0

\* C18: every level is in [0, L-1]; from one state to the next the level of a
\* key that stays cached is unchanged, or rises by exactly 1 by a Get of that
\* key (from level 0 always, from level i with 1 <= i < L-1 only when the draw
\* is below base^i), or becomes 0 by a Set of that key.
C18_LevelSteps ==
  [][/\ \A k \in DOMAIN index : index[k] \in Levels
     /\ \A k \in DOMAIN index' : index'[k] \in Levels
     /\ \A k \in (DOMAIN index) \cap (DOMAIN index') :
          \/ index'[k] = index[k]
          \/ /\ index'[k] = index[k] + 1
             /\ last'.op = "Get"
             /\ last'.key = k
             /\ \/ index[k] = 0
                \/ /\ 1 <= index[k]
                   /\ index[k] < numBuckets - 1
                   /\ last'.r # NoDraw
                   /\ last'.r * PowInv(index[k]) < DrawScale
          \/ /\ index'[k] = 0
             /\ last'.op = "Set"
             /\ last'.key = k
     /\ (last'.op = "Get" /\ MapHas(index, last'.key)) =>
          /\ index'[last'.key] >= index[last'.key]
          /\ index'[last'.key] <= index[last'.key] + 1
          /\ (index[last'.key] = 0 => index'[last'.key] = 1)]_vars
C18_Witness ==
  /\ last.op = "Get"
  /\ last.i = 2
  /\ last.r # NoDraw
  /\ last.r * PowInv(2) < DrawScale
  /\ index[last.key] = maxBucketIndex

\* C19: a key leaves the cache without a Remove of it only inside a Set of a
\* key that is not cached, with size > 0 and Len() = size at that moment; Set
\* of a cached key, Set of a new key below capacity, Get, Remove and Len evict
\* nothing.
C19_EvictionOnlyOnFullInsert ==
  [][LET evicted == {k \in (DOMAIN index) \ (DOMAIN index') :
                       ~(last'.op = "Remove" /\ last'.key = k)}
     IN  /\ (evicted # {} \/ last'.victim # NoKey) =>
               /\ last'.op = "Set"
               /\ ~MapHas(index, last'.key)
               /\ size > 0
               /\ CacheLen(index) = size
               /\ evicted = {last'.victim}
         /\ (last'.op = "Set" /\ MapHas(index, last'.key)) => evicted = {}
         /\ (last'.op = "Set" /\ CacheLen(index) < size) => evicted = {}
         /\ last'.op \in {"Get", "Remove", "Len"} => evicted = {}]_vars
C19_Witness ==
  /\ last.op = "Set"
  /\ last.victim # NoKey
  /\ last.i = NoLevel
  /\ size = MaxSize
  /\ CacheLen(index) = size
  /\ ~MapHas(index, last.victim)

\* C20: a Get(k) moves at most k, from one bucket to the next: the cached keys,
\* Len(), and the level and value of every other key, and the value of k, are
\* the same before and after.
C20_GetMovesOnlyItsKey ==
  [][(last'.op = "Get") =>
       LET k == last'.key
           moved == {i \in Levels : buckets'[i] # buckets[i]}
       IN  /\ DOMAIN index' = DOMAIN index
           /\ CacheLen(index') = CacheLen(index)
           /\ \A j \in Keys \ {k} :
                Entry(index', buckets', j) = Entry(index, buckets, j)
           /\ \A i \in Levels : \A j \in Keys \ {k} :
                /\ (j \in DOMAIN buckets'[i]) = (j \in DOMAIN buckets[i])
                /\ (j \in DOMAIN buckets[i]) => buckets'[i][j] = buckets[i][j]
           /\ Entry(index', buckets', k)[2] = Entry(index, buckets, k)[2]
           /\ \/ moved = {}
              \/ /\ MapHas(index, k)
                 /\ moved = {index[k], index[k] + 1}
                 /\ index'[k] = index[k] + 1]_vars
C20_Witness ==
  /\ last.op = "Get"
  /\ last.ok
  /\ last.i = 1
  /\ index[last.key] = 2
  /\ \E j \in DOMAIN index : j # last.key /\ index[j] = 1

\* C22: Set(k, v) and Remove(k) change no key other than k, except the single
\* victim of a Set at capacity: every other key is cached after the call iff it
\* was before, in the same bucket and with the same value; a Remove has no
\* victim, and neither has a Set of a cached key or below capacity.
C22_SetRemoveFrame ==
  [][(last'.op \in {"Set", "Remove"}) =>
       LET k == last'.key
           touched == {j \in Keys \ {k} :
                         \/ Entry(index', buckets', j) # Entry(index, buckets, j)
                         \/ \E i \in Levels :
                              \/ (j \in DOMAIN buckets'[i]) # (j \in DOMAIN buckets[i])
                              \/ /\ j \in DOMAIN buckets[i]
                                 /\ j \in DOMAIN buckets'[i]
                                 /\ buckets'[i][j] # buckets[i][j]}
       IN  /\ Cardinality(touched) <= 1
           /\ touched # {} =>
                 /\ last'.op = "Set"
                 /\ ~MapHas(index, k)
                 /\ size > 0
                 /\ CacheLen(index) = size
                 /\ touched = {last'.victim}
                 /\ ~MapHas(index', last'.victim)
           /\ last'.op = "Remove" => touched = {}]_vars
C22_Witness ==
  /\ last.op = "Set"
  /\ last.victim # NoKey
  /\ ~MapHas(index, last.victim)
  /\ \E j \in DOMAIN index :
       /\ j # last.key
       /\ index[j] >= 1
       /\ buckets[index[j]][j] = latest[j]

\* every step of the single client is one of the atomic outcomes of its call
SpecStepIsAtomicOutcome ==
  [][last'.op # "New" =>
       Outcome(index', buckets', rng',
               IF last'.op = "Len" THEN last'.n ELSE last'.v, last'.ok)
         \in AtomicOutcomes(last'.op, last'.key, last'.value, size,
                            Snapshot(index, buckets, rng))]_vars

\* C11: the calls of several goroutines are linearizable. The cache as of the
\* last completed call (snap) changes only when a call returns, and then by
\* one atomic execution of that call, with the values the call returns (for
\* Get: the value read and the promotion in one step); whenever the lock is
\* free the cache is that sequential result.
C11_Linearizable ==
  [][/\ (mu = NoThread) => snap = Snapshot(index, buckets, rng)
     /\ (mu' = NoThread) => snap' = Snapshot(index', buckets', rng')
     /\ \/ \E t \in Threads :
             /\ Returns(t)
             /\ Outcome(index', buckets', rng', RetV(t), RetOk(t))
                  \in AtomicOutcomes(op[t], akey[t], aval[t], size, snap)
        \/ /\ \A t \in Threads : ~Returns(t)
           /\ snap' = snap]_vars
C11_Witness ==
  \E t, u \in Threads :
    /\ t # u
    /\ mu = t
    /\ pc[t] = "unlock"
    /\ op[t] = "Get"
    /\ li[t] = 1
    /\ lv[t] = MaxVal
    /\ MapHas(snap.index, akey[t])
    /\ snap.index[akey[t]] = 1
    /\ index[akey[t]] = 2
    /\ snap.rng # rng
    /\ pc[u] = "lock"

\* the fields of a line of the run-length format, as the format states them
HasSep(line) == \E j \in 1..Len(line) : line[j] = " "
FirstField(line) == IF HasSep(line) THEN SubSeq(line, 1, IndexSep(line)) ELSE line
AfterFirstField(line) ==
  IF HasSep(line) THEN SubSeq(line, IndexSep(line) + 2, Len(line)) ELSE <<>>
KeyField(line) == FirstField(line)
CountField(line) == FirstField(AfterFirstField(line))
\* a numeric key, one space, a numeric count, with or without further fields
WellFormed(line) ==
  HasSep(line) /\ Atoi(KeyField(line)).ok /\ Atoi(CountField(line)).ok
\* key, key+1, ..., key+count-1
Run(k, n) == [j \in 1..n |-> k + j - 1]
Expansion(line) == Run(Atoi(KeyField(line)).n, Atoi(CountField(line)).n)
RECURSIVE ExpandAll(_)
ExpandAll(lines) ==
  IF Len(lines) = 0 THEN <<>> ELSE Expansion(Head(lines)) \o ExpandAll(Tail(lines))

\* C15: over an input whose lines all are a numeric key, one space and a
\* numeric count, with or without further fields, the run-length reader does
\* not fail, and the keys its Reads delivered so far, followed by the rest of
\* the line it is in, are the expansions of the lines read so far, in order,
\* whatever the buffer lengths were.
C15_ArcExpandsEveryLine ==
  (tr.kind = "arc" /\ \A j \in 1..Len(tr.lines) : WellFormed(tr.lines[j])) =>
    /\ tr.ret.err.kind \in {"nil", "EOF"}
    /\ tr.out \o Run(tr.k, tr.n) = ExpandAll(SubSeq(tr.lines, 1, tr.pos))

\* C16: for both readers, a Read that reaches the end of the input before the
\* buffer is full returns the number of keys read so far together with io.EOF;
\* blank lines are skipped, they fail no Read.
C16_EndOfInputIsEOF ==
  (tr.kind \in {"arc", "lirs"}) =>
    /\ tr.ret.hitEnd => (tr.ret.err = ErrEOF /\ tr.ret.n = Len(tr.ret.buf))
    /\ \A p \in (tr.ret.from + 1)..tr.pos :
         (tr.lines[p] = <<>>) => tr.ret.err.kind \in {"nil", "EOF"}

\* C17: in the run-length reader, a Read that meets a line without separator
\* or with a non-numeric key or count stops at it and returns an error citing
\* that line, with the number of keys written before it.
C17_BadLineIsAnError ==
  (tr.kind = "arc") =>
    LET bad == {p \in (tr.ret.from + 1)..tr.pos :
                  tr.lines[p] # <<>> /\ ~WellFormed(tr.lines[p])}
    IN  bad # {} =>
          /\ tr.pos \in bad
          /\ \A p \in bad : p = tr.pos
          /\ tr.ret.err = ErrInvalidLine(tr.lines[tr.pos])
          /\ tr.ret.n = Len(tr.ret.buf)

\* a line the run-length reader parses without fault: numeric key and count,
\* and a separator after the count
Parses(line) == WellFormed(line) /\ HasSep(AfterFirstField(line))

\* C23: over an input of such lines, a line whose count is zero or negative
\* contributes no key and the reader goes on to the next line: the keys
\* delivered so far, with the rest of the current run, are the expansions of
\* the lines read so far (empty for a count <= 0); a Read comes back short only
\* at the end of the input; a finite input yields no more keys than its
\* expansion has.
C23_NonPositiveCountYieldsNothing ==
  (tr.kind = "arc" /\ \A j \in 1..Len(tr.lines) : Parses(tr.lines[j])) =>
    /\ tr.out \o Run(tr.k, tr.n) = ExpandAll(SubSeq(tr.lines, 1, tr.pos))
    /\ Len(tr.out) <= Len(ExpandAll(tr.lines))
    /\ tr.ret.n < tr.ret.len => tr.pos = Len(tr.lines)
    /\ tr.n >= 0

\* C21: every call releases the mutex on every path: a goroutine that is not
\* in a call, or waits in Lock, does not hold it; and under fair scheduling
\* and fair lock acquisition every call that has reached Lock returns.
C21_EveryCallReturns ==
  /\ [](\A t \in Threads : pc[t] \in {"idle", "lock"} => mu # t)
  /\ \A t \in Threads : (pc[t] = "lock") ~> (pc[t] = "idle")
\* a goroutine waits in Lock while another is on the miss return of Get
C21_Witness ==
  \E t, u \in Threads :
    /\ t # u
    /\ pc[t] = "lock"
    /\ mu = u
    /\ pc[u] = "unlock"
    /\ op[u] = "Get"
    /\ li[u] = NoLevel
    /\ CacheLen(index) >= 1

\* the handles in the reverse of the order they were acquired in
Reverse(q) == [j \in 1..Len(q) |-> q[Len(q) + 1 - j]]

\* C24: every handle Open acquires is released: when Open returns an error no
\* handle it opened is left open, and after a successful Open, Close closes
\* every handle, in the reverse of the acquisition order.
C24_HandlesReleased ==
  /\ files.st = "failed" => files.open = {}
  /\ files.st = "closed" =>
       /\ files.open = {}
       /\ files.closed = Reverse(files.acquired)
====
